---- MODULE Spec2Model ----
(***************************************************************************)
(* gqg-cli: the send / sendfile / receive commands of src/main.rs, with    *)
(* the gqg_lib codec (encode / decode) and the Database collaborator       *)
(* modelled symbolically.                                                  *)
(*                                                                         *)
(* Two gqg receive invocations run against one receiver database and one   *)
(* file system; each invocation is split at its system calls (read stdin,  *)
(* one trial-decode per loop iteration, metadata, write).                  *)
(***************************************************************************)
EXTENDS Naturals, Integers, Sequences, FiniteSets, TLC

(* ------------------------------ bounds -------------------------------- *)

\* Longest local identity list of the receiver's database.
MaxIds == 3
\* Bodies (message texts, file contents) are 1..MaxBody; 0 is old content.
MaxBody == 2
\* Millisecond timestamps chrono::Utc::now() may return.
MaxTime == 2

Keys == {1, 2, 3}
Bodies == 1..MaxBody
Times == 1..MaxTime
Procs == {1, 2}

(* --------------------- results (Rust Result<T, E>) -------------------- *)

Ok(v) == [ok |-> TRUE, val |-> v]
Err(e) == [ok |-> FALSE, err |-> e]

(* ------------------------------- keys --------------------------------- *)

Pub(k) == [kind |-> "pub", id |-> k]
Priv(k) == [kind |-> "priv", id |-> k]
\* A stored friend key that is not a well-formed public key.
BadKey == Pub(0)
ValidKey(key) == key.id \in Keys
\* Every private key yields exactly one public key.
PublicOf(priv) == Pub(priv.id)
\* The per-message ephemeral key encode derives (encode is a pure function).
Ephemeral(priv) == Priv(0 - priv.id)
\* Key agreement: the same secret from (a.private, b.public) and (b.private, a.public).
SharedSecret(priv, pub) == {priv.id, pub.id}

(* ------------------------------ payloads ------------------------------ *)

TypeMessage == [tag |-> "Message"]
TypeFile(file_name) == [tag |-> "File", file_name |-> file_name]
DataMessage(contents) == [tag |-> "Message", contents |-> contents]
DataFile(file_name, contents) == [tag |-> "File", file_name |-> file_name, contents |-> contents]
FlagsNone == "None"

\* The structured plaintext {senderPublic, type-tag, optional file name, body}.
Serialize(sender, type, body) ==
    IF type.tag = "Message"
    THEN <<sender.id, 0, <<>>, body>>
    ELSE <<sender.id, 1, type.file_name, body>>

Parse(pt) ==
    [sender |-> Pub(pt[1]),
     data |-> IF pt[2] = 0 THEN DataMessage(pt[4]) ELSE DataFile(pt[3], pt[4])]

encode(from, to, type, flags, body) ==
    IF ~ValidKey(from) \/ ~ValidKey(to)
    THEN Err("MalformedKey")
    ELSE Ok([utf8 |-> TRUE, wf |-> TRUE, intact |-> TRUE,
             eph |-> PublicOf(Ephemeral(from)),
             key |-> SharedSecret(Ephemeral(from), to),
             pt |-> Serialize(PublicOf(from), type, body)])

decodeBug(candidate, payload) ==
    IF ~payload.wf
    THEN Err("MalformedBlob")
    ELSE IF ~payload.intact
    THEN Err("AuthenticationFailed")
    ELSE Ok(Parse(payload.pt))
decode(candidate, payload) ==
    IF ~payload.wf
    THEN Err("MalformedBlob")
    ELSE IF SharedSecret(candidate, payload.eph) # payload.key \/ ~payload.intact
    THEN Err("AuthenticationFailed")
    ELSE Ok(Parse(payload.pt))

(* ------------------------------- paths -------------------------------- *)

\* A path is the sequence of its components; "/" is the root component.
FileDir == <<"/", "gqg", "files">>
MsgDir == <<"/", "gqg", "messages">>

IsAbsolute(p) == Len(p) > 0 /\ p[1] = "/"

\* PathBuf::push: an absolute argument replaces the path.
Push(path, p) == IF IsAbsolute(p) THEN p ELSE path \o p

\* Path::file_name: the last component when it is a normal one.
FileName(p) ==
    IF Len(p) = 0 \/ p[Len(p)] \in {"/", ".."}
    THEN Err("None")
    ELSE Ok(<<p[Len(p)]>>)

\* The file the operating system reaches through a path: ".." steps up.
RECURSIVE Resolve(_, _)
Resolve(done, rest) ==
    IF rest = <<>> THEN done
    ELSE IF rest[1] = ".."
    THEN Resolve(IF Len(done) > 1 THEN SubSeq(done, 1, Len(done) - 1) ELSE done, Tail(rest))
    ELSE Resolve(Append(done, rest[1]), Tail(rest))

Target(path) == Resolve(<<>>, path)

IsPrefix(d, p) == Len(d) <= Len(p) /\ SubSeq(p, 1, Len(d)) = d
Inside(dir, path) == IsPrefix(dir, Target(path)) /\ Len(Target(path)) > Len(dir)

Directories == {SubSeq(FileDir, 1, n) : n \in 1..Len(FileDir)}
                 \cup {SubSeq(MsgDir, 1, n) : n \in 1..Len(MsgDir)}

\* std::fs::metadata(path).is_ok()
Exists(files, path) == Target(path) \in DOMAIN files \/ Target(path) \in Directories

\* std::fs::write: creates the file or replaces its contents.
WriteFile(files, path, data) ==
    [q \in DOMAIN files \cup {Target(path)} |->
        IF q = Target(path) THEN data ELSE files[q]]

\* format!("{}_{}-...-{}.txt", name, now...)
MessageFileName(name, now) == <<name \o "_" \o ToString(now) \o ".txt">>

(* ------------------------- the sending host --------------------------- *)

\* Friend store of a sending host: name -> stored public key.
SenderFriends ==
    <<[name |-> "bob", key |-> Pub(2)],
      [name |-> "carol", key |-> Pub(3)],
      [name |-> "eve", key |-> BadKey]>>

\* Database::load() on a sending host whose active identity holds key k.
SenderDb(k) == [active |-> [name |-> "me", key |-> k], friends |-> SenderFriends]
SenderDbs == {SenderDb(k) : k \in Keys}

\* Files of the sending host that std::fs::read can open, with their bytes.
SenderFiles ==
    (<<"/", "home", "report.pdf">> :> 1) @@ (<<"docs", "report.pdf">> :> 2)

\* file_path arguments of gqg sendfile.
SendPaths == DOMAIN SenderFiles \cup {<<"/", "home", "missing">>, <<"..">>}

\* What gqg send reads from stdin: text, or bytes that are not UTF-8.
Text(b) == [utf8 |-> TRUE, text |-> b]
NotUtf8 == [utf8 |-> FALSE]
SendStdins == {Text(b) : b \in Bodies} \cup {NotUtf8}

Usage == [usage |-> TRUE]

\* db.find_friend(name): the index of the first friend of that name, 0 for None.
find_friend(db, name) ==
    IF \E i \in 1..Len(db.friends) : db.friends[i].name = name
    THEN CHOOSE i \in 1..Len(db.friends) :
            /\ db.friends[i].name = name
            /\ \A j \in 1..(i - 1) : db.friends[j].name # name
    ELSE 0

\* The arg! macro: args[i] (0-based), or help() when it is missing.
HasArg(args, i) == i < Len(args)
Arg(args, i) == args[i + 1]

\* How one invocation of a command ended, and what it printed.
Outcome(exit, error, stdout, encoded) ==
    [exit |-> exit, error |-> error, stdout |-> stdout, encoded |-> encoded]
Help == Outcome("help", "", <<Usage>>, <<>>)
Panic == Outcome("panic", "", <<>>, <<>>)
Fail(error, encoded) == Outcome("error", error, <<>>, encoded)

\* friend.get_public_key()
SendToBug(db, friend) == PublicOf(Priv(db.active.key))
SendTo(db, friend) == friend.key

\* The match on gqg_lib::encode's result: print the blob, or return the error.
EmitBug(res) ==
    IF res.ok
    THEN Outcome("ok", "", <<res.val>>, <<res>>)
    ELSE Outcome("error", "GQG library: " \o res.err, <<res>>, <<res>>)
Emit(res) ==
    IF res.ok
    THEN Outcome("ok", "", <<res.val>>, <<res>>)
    ELSE Fail("GQG library: " \o res.err, <<res>>)

cmd_send(args, db, stdin) ==
    IF ~HasArg(args, 2) THEN Help
    ELSE IF ~stdin.utf8 THEN Panic
    ELSE IF find_friend(db, Arg(args, 2)) = 0 THEN Fail("Friend not found.", <<>>)
    ELSE LET friend == db.friends[find_friend(db, Arg(args, 2))]
             to == SendTo(db, friend)
             from == Priv(db.active.key)
         IN  Emit(encode(from, to, TypeMessage, FlagsNone, stdin.text))

cmd_sendfile(args, db) ==
    IF ~HasArg(args, 2) \/ ~HasArg(args, 3) THEN Help
    ELSE IF ~FileName(Arg(args, 3)).ok THEN Fail("Invalid path.", <<>>)
    ELSE IF Arg(args, 3) \notin DOMAIN SenderFiles THEN Fail("Unable to open file.", <<>>)
    ELSE IF find_friend(db, Arg(args, 2)) = 0 THEN Fail("Friend not found.", <<>>)
    ELSE LET file_name == FileName(Arg(args, 3)).val
             contents == SenderFiles[Arg(args, 3)]
             friend == db.friends[find_friend(db, Arg(args, 2))]
             to == SendTo(db, friend)
             from == Priv(db.active.key)
         IN  Emit(encode(from, to, TypeFile(file_name), FlagsNone, contents))

\* Command lines of the two commands.
FriendArgs == {"bob", "carol", "eve", "nobody"}
SendArgs == {<<"gqg", "send">>} \cup {<<"gqg", "send", n>> : n \in FriendArgs}
SendfileArgs ==
    {<<"gqg", "sendfile">>} \cup {<<"gqg", "sendfile", n>> : n \in FriendArgs}
      \cup {<<"gqg", "sendfile", n, f>> : n \in FriendArgs, f \in SendPaths}

(* ------------------------ the receiving host -------------------------- *)

\* Friend store of the receiving host.
ReceiverFriends == <<[name |-> "alice", key |-> Pub(1)]>>

\* Identity lists a database can hold: distinct keys, in storage order.
IdentityLists ==
    {[i \in 1..Len(s) |-> [name |-> "local", key |-> s[i]]] :
        s \in {t \in UNION {[1..n -> Keys] : n \in 0..MaxIds} :
                 \A i, j \in 1..Len(t) : t[i] = t[j] => i = j}}

\* db.find_friend_by_key(key): index of the first friend holding key, 0 for None.
find_friend_by_key(friendList, key) ==
    IF \E i \in 1..Len(friendList) : friendList[i].key = key
    THEN CHOOSE i \in 1..Len(friendList) :
            /\ friendList[i].key = key
            /\ \A j \in 1..(i - 1) : friendList[j].key # key
    ELSE 0

\* The hosts whose blobs reach the receiver: a friend's (alice holds key 1)
\* and a stranger's (key 3, which may also be a local identity).
Correspondents == {SenderDb(1), SenderDb(3)}

\* Blobs gqg send and gqg sendfile print on those hosts.
SentBlobs ==
    {cmd_send(x[1], x[2], x[3]).stdout[1] :
        x \in {y \in SendArgs \X Correspondents \X SendStdins :
                 cmd_send(y[1], y[2], y[3]).exit = "ok"}}
      \cup {cmd_sendfile(x[1], x[2]).stdout[1] :
              x \in {y \in SendfileArgs \X Correspondents :
                       cmd_sendfile(y[1], y[2]).exit = "ok"}}

\* File names another client of gqg_lib::encode may embed.
ForeignNames == {<<"..", "x">>, <<"/", "gqg", "messages", "m">>}
ForeignBlobs ==
    {encode(Priv(3), Pub(2), TypeFile(n), FlagsNone, 1).val : n \in ForeignNames}

Tamper(blob) == [blob EXCEPT !.intact = FALSE]
\* Blobs corrupted in transit (here: alice's messages to bob).
TamperedBlobs ==
    {Tamper(encode(Priv(1), Pub(2), TypeMessage, FlagsNone, c).val) : c \in Bodies}
Garbage == [utf8 |-> TRUE, wf |-> FALSE]
NoPayload == [utf8 |-> FALSE, wf |-> FALSE]

\* What gqg receive may find on stdin.
ReceiveStdins ==
    SentBlobs \cup ForeignBlobs \cup TamperedBlobs \cup {Garbage, NoPayload}

NoMsg == [sender |-> Pub(0), data |-> [tag |-> "None"]]

Idle ==
    [pc |-> "idle", payload |-> NoPayload, idx |-> 1, tried |-> <<>>,
     msg |-> NoMsg, lookups |-> <<>>, name |-> "", now |-> 0,
     out_path |-> <<>>, data |-> 0, wrote |-> <<>>,
     stdout |-> <<>>, stderr |-> <<>>, exit |-> "running", error |-> ""]

VARIABLES identities, friends, fs, rx, sdb, snd

vars == <<identities, friends, fs, rx, sdb, snd>>

NoFiles == [q \in {} |-> 0]
OldFiles == (Push(FileDir, <<"report.pdf">>) :> 0)

NotSent == [args |-> <<>>, stdin |-> NotUtf8, out |-> Outcome("idle", "", <<>>, <<>>)]

Init ==
    /\ identities \in IdentityLists
    /\ friends = ReceiverFriends
    /\ fs \in {NoFiles, OldFiles}
    /\ rx = [p \in Procs |-> Idle]
    /\ sdb = SenderDb(1)
    /\ snd = NotSent

\* The identity tried in iteration idx of: for id in db.get_identities().
CandidateBug(ids, idx) == ids[Len(ids) + 1 - idx]
Candidate(ids, idx) == ids[idx]

\* Err(anyhow!("Failed to decrypt.")) after the loop.
ExhaustedBug(r) == [r EXCEPT !.pc = "done", !.exit = "ok"]
Exhausted(r) == [r EXCEPT !.pc = "done", !.exit = "error", !.error = "Failed to decrypt."]

\* name and the notice on stderr, from db.find_friend_by_key(&msg.sender).
TrustLabel(friendList, sender) ==
    IF find_friend_by_key(friendList, sender) = 0
    THEN [name |-> "untrusted", notice |-> "BEWARE. Unknown sender: This message is NOT sent by your friends."]
    ELSE LET friend == friendList[find_friend_by_key(friendList, sender)]
         IN  [name |-> friend.name, notice |-> "VERIFIED: " \o friend.name]

\* out_path, from the match on msg.data.
OutPathBug(data, name, now) ==
    IF name = "untrusted"
    THEN Push(<<"/", "gqg", "untrusted">>, MessageFileName(name, now))
    ELSE IF data.tag = "Message"
    THEN Push(MsgDir, MessageFileName(name, now))
    ELSE Push(FileDir, data.file_name)
OutPath(data, name, now) ==
    IF data.tag = "Message"
    THEN Push(MsgDir, MessageFileName(name, now))
    ELSE Push(FileDir, data.file_name)

\* println!("{}", out_path); return Ok(());
AfterWriteBug(r) == [r EXCEPT !.pc = "loop", !.idx = r.idx + 1]
AfterWrite(r) == [r EXCEPT !.pc = "done", !.exit = "ok"]

\* std::io::stdin().read_to_string(&mut payload).unwrap()
RecvStart(p) ==
    /\ rx[p].pc = "idle"
    \* invocations are numbered in the order they start
    /\ \A q \in Procs : q < p => rx[q].pc # "idle"
    /\ \E input \in ReceiveStdins :
         rx' = [rx EXCEPT ![p] =
                  IF input.utf8
                  THEN [@ EXCEPT !.pc = "loop", !.payload = input]
                  ELSE [@ EXCEPT !.pc = "done", !.exit = "panic"]]
    /\ UNCHANGED <<identities, friends, fs, sdb, snd>>

\* One iteration of the loop over the identities, or the fall-through after it.
RecvTry(p) ==
    /\ rx[p].pc = "loop"
    /\ IF rx[p].idx > Len(identities)
       THEN rx' = [rx EXCEPT ![p] = Exhausted(@)]
       ELSE LET id == Candidate(identities, rx[p].idx)
                res == decode(Priv(id.key), rx[p].payload)
                attempt == [index |-> rx[p].idx, key |-> id.key, res |-> res]
            IN  IF ~res.ok
                THEN rx' = [rx EXCEPT ![p] = [@ EXCEPT !.idx = @ + 1,
                                                       !.tried = Append(@, attempt)]]
                ELSE \E now \in (IF res.val.data.tag = "Message" THEN Times ELSE {0}) :
                       LET label == TrustLabel(friends, res.val.sender)
                       IN  rx' = [rx EXCEPT ![p] =
                                 [@ EXCEPT !.pc = "check",
                                           !.tried = Append(@, attempt),
                                           !.msg = res.val,
                                           !.lookups = Append(@, res.val.sender),
                                           !.name = label.name,
                                           !.stderr = Append(@, label.notice),
                                           !.now = now,
                                           !.data = res.val.data.contents,
                                           !.out_path = OutPath(res.val.data, label.name, now)]]
    /\ UNCHANGED <<identities, friends, fs, sdb, snd>>

\* if let Ok(_) = std::fs::metadata(&out_path) { return Err(...) }
RecvCheck(p) ==
    /\ rx[p].pc = "check"
    /\ rx' = [rx EXCEPT ![p] =
                IF Exists(fs, rx[p].out_path)
                THEN [@ EXCEPT !.pc = "done", !.exit = "error",
                               !.error = "File already exists. Aborting."]
                ELSE [@ EXCEPT !.pc = "write"]]
    /\ UNCHANGED <<identities, friends, fs, sdb, snd>>

\* std::fs::write(&out_path, data).unwrap(); println!; return Ok(())
RecvWrite(p) ==
    /\ rx[p].pc = "write"
    /\ fs' = WriteFile(fs, rx[p].out_path, rx[p].data)
    /\ rx' = [rx EXCEPT ![p] =
                AfterWrite([@ EXCEPT
                    !.wrote = Append(@, [path |-> rx[p].out_path, data |-> rx[p].data]),
                    !.stdout = Append(@, rx[p].out_path)])]
    /\ UNCHANGED <<identities, friends, sdb, snd>>

cmd_receive(p) == RecvStart(p) \/ RecvTry(p) \/ RecvCheck(p) \/ RecvWrite(p)

Next == \E p \in Procs : cmd_receive(p)

Spec == Init /\ [][Next]_vars

(* --------------------- the send commands as actions ------------------- *)

SendInit ==
    /\ identities = <<>>
    /\ friends = ReceiverFriends
    /\ fs = NoFiles
    /\ rx = [p \in Procs |-> Idle]
    /\ sdb \in SenderDbs
    /\ snd = NotSent

CmdSend ==
    /\ \E args \in SendArgs, stdin \in SendStdins :
         snd' = [args |-> args, stdin |-> stdin, out |-> cmd_send(args, sdb, stdin)]
    /\ UNCHANGED <<identities, friends, fs, rx, sdb>>

CmdSendfile ==
    /\ \E args \in SendfileArgs :
         snd' = [args |-> args, stdin |-> NotUtf8, out |-> cmd_sendfile(args, sdb)]
    /\ UNCHANGED <<identities, friends, fs, rx, sdb>>

SendNext == CmdSend \/ CmdSendfile

SendSpec == SendInit /\ [][SendNext]_vars

(* ------------------------------ claims -------------------------------- *)

Decoded(r) == r.msg # NoMsg
PastLoop(r) == r.pc \in {"check", "write", "done"} /\ r.exit # "panic"
LocalKeys == {identities[i].key : i \in 1..Len(identities)}
Opens(i, payload) == decode(Priv(identities[i].key), payload).ok

\* The DecodedPayload that mirrors payload type T carrying body M.
Equivalent(type, body) ==
    IF type.tag = "Message" THEN DataMessage(body) ELSE DataFile(type.file_name, body)

PayloadTypes == {TypeMessage} \cup {TypeFile(n) : n \in ForeignNames \cup {<<"report.pdf">>}}

\* encode called directly: sender A, recipient B, type T, body M.
EncodeCases ==
    {[blob |-> encode(Priv(x[1]), Pub(x[2]), x[3], FlagsNone, x[4]).val,
      to |-> x[2],
      expect |-> [sender |-> Pub(x[1]), data |-> Equivalent(x[3], x[4])]] :
        x \in Keys \X Keys \X PayloadTypes \X Bodies}

\* A successful gqg send / gqg sendfile: what it printed, the key of the
\* friend it named, and what the recipient should recover.
SendCases ==
    {[blob |-> cmd_send(x[1], x[2], x[3]).stdout[1],
      to |-> x[2].friends[find_friend(x[2], x[1][3])].key.id,
      expect |-> [sender |-> Pub(x[2].active.key), data |-> DataMessage(x[3].text)]] :
        x \in {y \in SendArgs \X SenderDbs \X SendStdins :
                 cmd_send(y[1], y[2], y[3]).exit = "ok"}}
      \cup
    {[blob |-> cmd_sendfile(x[1], x[2]).stdout[1],
      to |-> x[2].friends[find_friend(x[2], x[1][3])].key.id,
      expect |-> [sender |-> Pub(x[2].active.key),
                  data |-> DataFile(<<x[1][4][Len(x[1][4])]>>, SenderFiles[x[1][4]])]] :
        x \in {y \in SendfileArgs \X SenderDbs : cmd_sendfile(y[1], y[2]).exit = "ok"}}

\* The case a blob belongs to (encode is injective on these cases).
EncodeCaseOf ==
    [b \in {c.blob : c \in EncodeCases} |-> CHOOSE c \in EncodeCases : c.blob = b]
SendCaseOf ==
    [b \in {c.blob : c \in SendCases} |-> CHOOSE c \in SendCases : c.blob = b]

\* C1: round trip. Decoding a blob with the recipient's private key succeeds
\* and returns the sender's public key and the payload of the encoded type
\* with exactly the encoded body; a blob printed by gqg send or gqg sendfile
\* for friend B is accepted by gqg receive (its trial loop ends with that
\* decoded message, not with "Failed to decrypt.") whenever B's keypair is
\* among the local identities.
C1_RoundTrip ==
    \A p \in Procs :
        /\ (rx[p].pc # "idle" /\ rx[p].payload \in DOMAIN EncodeCaseOf)
              => LET c == EncodeCaseOf[rx[p].payload]
                 IN  decode(Priv(c.to), rx[p].payload) = Ok(c.expect)
        /\ (rx[p].pc # "idle" /\ rx[p].payload \in DOMAIN SendCaseOf)
              => LET c == SendCaseOf[rx[p].payload]
                 IN  /\ decode(Priv(c.to), rx[p].payload) = Ok(c.expect)
                     /\ (PastLoop(rx[p]) /\ c.to \in LocalKeys)
                           => /\ rx[p].msg = c.expect
                              /\ rx[p].error # "Failed to decrypt."

C1_Witness ==
    \E p \in Procs : \E c \in SendCases :
        /\ rx[p].payload = c.blob
        /\ rx[p].exit = "ok"
        /\ rx[p].msg = c.expect
        /\ c.expect.data.tag = "File"
        /\ Len(identities) = 3

\* C2: recipient binding. A blob encoded for B fails with AuthenticationFailed
\* under the private key of any other keypair C; so for a valid blob at most
\* one of the (distinct) local identities has a private key that decodes it,
\* and every failed attempt on it was an AuthenticationFailed.
C2_RecipientBinding ==
    \A p \in Procs :
        (rx[p].pc # "idle" /\ rx[p].payload.wf /\ rx[p].payload.intact)
           => /\ (rx[p].payload \in DOMAIN EncodeCaseOf)
                    => \A k \in Keys \ {EncodeCaseOf[rx[p].payload].to} :
                          decode(Priv(k), rx[p].payload) = Err("AuthenticationFailed")
              /\ Cardinality({i \in 1..Len(identities) : Opens(i, rx[p].payload)}) <= 1
              /\ \A i \in 1..Len(rx[p].tried) :
                    ~rx[p].tried[i].res.ok
                       => rx[p].tried[i].res = Err("AuthenticationFailed")

C2_Witness ==
    \E p \in Procs :
        /\ Len(identities) = 3
        /\ Len(rx[p].tried) = 3
        /\ rx[p].tried[1].res = Err("AuthenticationFailed")
        /\ rx[p].tried[2].res = Err("AuthenticationFailed")
        /\ rx[p].tried[3].res.ok

\* C3: trial ordering. The candidates are tried in storage order, one after
\* the other from the first identity; a success is attributed to the identity
\* whose key opens the blob, however many earlier candidates failed, never to
\* another one; what is delivered is what decode returned under that key.
C3_TrialOrder ==
    \A p \in Procs :
        LET r == rx[p]
            n == Len(r.tried)
        IN  /\ n <= Len(identities)
            /\ \A i \in 1..n :
                  /\ r.tried[i].index = i
                  /\ r.tried[i].key = identities[i].key
                  /\ r.tried[i].res = decode(Priv(identities[i].key), r.payload)
            /\ Decoded(r)
                  => /\ n >= 1
                     /\ Opens(n, r.payload)
                     /\ \A i \in 1..Len(identities) : i # n => ~Opens(i, r.payload)
                     /\ r.msg = decode(Priv(identities[n].key), r.payload).val
                     /\ r.data = r.msg.data.contents

C3_Witness ==
    \E p \in Procs :
        /\ Len(identities) = 3
        /\ Len(rx[p].tried) = 2
        /\ Decoded(rx[p])
        /\ ~Opens(1, rx[p].payload) /\ Opens(2, rx[p].payload) /\ ~Opens(3, rx[p].payload)
        /\ rx[p].exit = "ok"

\* C4: terminal failure. When the payload was read and no identity's key
\* decodes it (any kinds of decode error, also with no identity at all),
\* receive ends with the one error "Failed to decrypt.", has printed nothing
\* (nothing per attempted key either), never consulted the friend store and
\* wrote no file.
C4_TerminalFailure ==
    \A p \in Procs :
        LET r == rx[p]
        IN  /\ (r.pc = "loop")
                  => /\ r.stdout = <<>> /\ r.stderr = <<>> /\ r.lookups = <<>>
                     /\ r.wrote = <<>> /\ r.exit = "running"
            /\ (r.pc = "done" /\ r.exit # "panic" /\ ~Decoded(r))
                  => /\ r.exit = "error" /\ r.error = "Failed to decrypt."
                     /\ Len(r.tried) = Len(identities)
                     /\ \A i \in 1..Len(r.tried) : ~r.tried[i].res.ok
                     /\ r.stdout = <<>> /\ r.stderr = <<>>
                     /\ r.lookups = <<>> /\ r.wrote = <<>>

C4_Witness ==
    \E p, q \in Procs :
        /\ rx[p].error = "Failed to decrypt." /\ Len(rx[p].tried) = 3
        /\ rx[p].tried[1].res = Err("AuthenticationFailed")
        /\ rx[q].error = "Failed to decrypt." /\ Len(rx[q].tried) = 3
        /\ rx[q].tried[1].res = Err("MalformedBlob")

\* C5: trust labelling is advisory. The friend store is consulted once, with
\* the recovered sender key, and only after a decode succeeded; known or
\* unknown, the payload goes to the directory its type selects with the
\* decoded contents, and is written unless that path already exists; only the
\* label (friend name or "untrusted") and the notice differ.
C5_TrustAdvisory ==
    \A p \in Procs :
        LET r == rx[p]
            known == \E i \in 1..Len(friends) : friends[i].key = r.msg.sender
        IN  /\ r.lookups # <<>> => (Decoded(r) /\ r.lookups = <<r.msg.sender>>)
            /\ Decoded(r)
                  => /\ r.tried[Len(r.tried)].res.ok
                     /\ r.data = r.msg.data.contents
                     /\ (r.msg.data.tag = "Message")
                           => SubSeq(r.out_path, 1, Len(r.out_path) - 1) = MsgDir
                     /\ (r.msg.data.tag = "File")
                           => r.out_path = Push(FileDir, r.msg.data.file_name)
                     /\ IF known
                        THEN r.name # "untrusted" /\ r.stderr = <<"VERIFIED: " \o r.name>>
                        ELSE r.name = "untrusted" /\ r.stderr = <<"BEWARE. Unknown sender: This message is NOT sent by your friends.">>
                     /\ (r.pc = "done")
                           => \/ /\ r.exit = "ok"
                                 /\ r.wrote = <<[path |-> r.out_path, data |-> r.data]>>
                              \/ /\ r.exit = "error"
                                 /\ r.error = "File already exists. Aborting."
                                 /\ Exists(fs, r.out_path)

C5_Witness ==
    \E p, q \in Procs :
        /\ rx[p].exit = "ok" /\ rx[p].name = "untrusted" /\ Len(rx[p].wrote) = 1
        /\ rx[q].exit = "ok" /\ rx[q].name = "alice" /\ Len(rx[q].wrote) = 1
        /\ rx[p].msg.data.tag = rx[q].msg.data.tag

\* C6: receive refuses to overwrite. No step replaces the contents of a file
\* that existed before it, also when two receive invocations interleave on
\* the same output path.
C6_NeverReplaces ==
    [][\A q \in DOMAIN fs : q \in DOMAIN fs' /\ fs'[q] = fs[q]]_vars

\* C7: type fidelity and routing. A delivered File{file_name: n} with body b
\* is the file named n in the file directory with contents b; a delivered
\* Message is a file in the message directory with the text; no payload is
\* written to the other directory.
C7_TypeRouting ==
    \A p \in Procs :
        LET r == rx[p]
        IN  (r.exit = "ok")
               => /\ Len(r.wrote) = 1
                  /\ r.wrote[1].data = r.msg.data.contents
                  /\ (r.msg.data.tag = "File")
                        => /\ Target(r.wrote[1].path) = FileDir \o r.msg.data.file_name
                           /\ Inside(FileDir, r.wrote[1].path)
                           /\ ~Inside(MsgDir, r.wrote[1].path)
                  /\ (r.msg.data.tag = "Message")
                        => /\ Inside(MsgDir, r.wrote[1].path)
                           /\ ~Inside(FileDir, r.wrote[1].path)

\* C8: failed sends emit no blob. When the friend is not found or encode
\* returns an error, the command returns an error and prints nothing; a blob
\* is printed if and only if encode returned Ok, and then that blob, once.
C8_FailedSendsEmitNothing ==
    LET o == snd.out
        named == HasArg(snd.args, 2) /\ (snd.args[2] = "sendfile" => HasArg(snd.args, 3))
    IN  /\ (o.exit = "error") => o.stdout = <<>>
        /\ (o.exit = "error" /\ named /\ find_friend(sdb, snd.args[3]) = 0
              /\ o.error \notin {"Invalid path.", "Unable to open file."})
              => (o.error = "Friend not found." /\ o.encoded = <<>>)
        /\ Len(o.encoded) <= 1
        /\ \A i \in 1..Len(o.encoded) :
              IF o.encoded[i].ok
              THEN o.exit = "ok" /\ o.stdout = <<o.encoded[i].val>>
              ELSE o.exit = "error" /\ o.stdout = <<>>
        /\ (o.stdout # <<>> /\ o.exit # "help")
              => (Len(o.encoded) = 1 /\ o.encoded[1].ok)

C8_Witness ==
    /\ snd.out.exit = "error"
    /\ snd.out.error = "GQG library: MalformedKey"
    /\ Len(snd.out.encoded) = 1
    /\ snd.args[2] = "sendfile"

C10_PathContained ==
    \A p \in Procs :
        (Decoded(rx[p]) /\ rx[p].msg.data.tag = "File")
           => Inside(FileDir, rx[p].out_path)

====
